---- MODULE Spec2Model ----
(***************************************************************************)
(* tokau: token kinds composed into a flat u32 id space.                   *)
(*                                                                         *)
(* A layout is the variant list of an enum deriving Space.  The derive     *)
(* computes Position::OFFSET per token type and TokenSpace::RESERVED, and  *)
(* generates try_from (decode) and value (encode).  TokenSpace supplies    *)
(* try_as, position_of, remainder, is_reserved and after_reserved.         *)
(*                                                                         *)
(* Integers are unsigned words 0..U32_MAX.  The width is scaled down so    *)
(* that every id of the word can be enumerated; additions that leave the   *)
(* word either panic (overflow checks on) or wrap (overflow checks off).   *)
(***************************************************************************)
EXTENDS Integers, Sequences, FiniteSets

\* Largest value of the (scaled) unsigned word.
U32_MAX == 15
\* Largest COUNT of a token kind.
MaxCount == 3

U32 == 0..U32_MAX
Modulus == U32_MAX + 1

\* Token kinds: derive(Name) enums and #[range] tuple structs.
NameKinds ==
    {"FirstName", "SecondName", "TinyToken", "GingerToken", "MaoToken", "SingleToken"}
RangeKinds == {"FirstRange", "SecondRange", "SingleRangeToken", "TextTokens"}
Kinds == NameKinds \cup RangeKinds
\* The kinds whose COUNT and order range over every possibility: two
\* derive(Name) enums, one #[range].
LayoutKinds == {"FirstName", "SecondName", "FirstRange"}
\* The marker of a variant carrying #[dynamic].
Dynamic == "Dynamic"

VARIABLES
    variants,   \* the enum's variants in declaration order: a kind or Dynamic
    COUNT,      \* Token::COUNT of every declared kind
    op,         \* the operation applied last
    arg,        \* its argument
    res,        \* its result
    from        \* the call whose result was the argument, or NoCall

vars == <<variants, COUNT, op, arg, res, from>>

----------------------------------------------------------------------------
\* Values.  Every value is a record with a tag.

U(n) == [tag |-> "u32", v |-> n]
Bool(b) == [tag |-> "bool", b |-> b]
Some(x) == [tag |-> "Some", v |-> x]
None == [tag |-> "None"]
Ok(x) == [tag |-> "Ok", v |-> x]
\* TokauError::OutOfRange { value, max }
OutOfRange(value, max) == [tag |-> "Err", value |-> value, max |-> max]
\* Arithmetic overflow with overflow checks on.
Panic == [tag |-> "panic"]
NoCall == [tag |-> "none"]
Call(o, a) == [tag |-> "call", op |-> o, arg |-> a]

\* A derive(Name) enum value: the ordinal-th declared variant (1-based).
NameToken(k, ordinal) == [tag |-> "name", kind |-> k, ordinal |-> ordinal]
\* A #[range] tuple struct value: Kind(n).
RangeToken(k, n) == [tag |-> "range", kind |-> k, n |-> n]
\* A value of the Space enum: the i-th variant wrapping payload.
SpaceValue(i, payload) == [tag |-> "space", variant |-> i, payload |-> payload]

\* Result::ok
ok(r) == IF r.tag = "Ok" THEN Some(r.v) ELSE None

\* Variant of checked_sub: the subtraction saturates at 0.
checked_sub_saturating(a, b) == IF a >= b THEN Some(a - b) ELSE Some(0)

\* u32::checked_sub
checked_sub(a, b) == IF a >= b THEN Some(a - b) ELSE None

\* a + b on the word: the outcomes the build can produce.
add(a, b) ==
    IF a + b <= U32_MAX THEN {U(a + b)} ELSE {Panic, U((a + b) % Modulus)}

----------------------------------------------------------------------------
\* Token kinds.

\* Variant of Token_try_from: the bound check admits value = COUNT.
Token_try_from_inclusive(k, value) ==
    IF value <= COUNT[k]
    THEN IF k \in RangeKinds
         THEN Ok(RangeToken(k, value))
         ELSE Ok(NameToken(k, value + 1))
    ELSE OutOfRange(value, COUNT[k])

\* Variant of Token_value: the 1-based ordinal of a Name variant.
Token_value_ordinal(t) == IF t.tag = "range" THEN t.n ELSE t.ordinal

\* Variant of Token_try_from: no bound check.
Token_try_from_unchecked(k, value) ==
    IF k \in RangeKinds
    THEN Ok(RangeToken(k, value))
    ELSE Ok(NameToken(k, value + 1))

\* Token::value
Token_value(t) == IF t.tag = "range" THEN t.n ELSE t.ordinal - 1

\* TryFrom<u32> for a token kind.
Token_try_from(k, value) ==
    IF k \in RangeKinds
    THEN IF value < COUNT[k]
         THEN Ok(RangeToken(k, value))
         ELSE OutOfRange(value, COUNT[k])
    ELSE IF \E i \in 0..(COUNT[k] - 1) : i = value
         THEN Ok(NameToken(k, value + 1))
         ELSE OutOfRange(value, COUNT[k])

----------------------------------------------------------------------------
\* derive(Space): layout.

\* token_types: the field types of the variants not marked #[dynamic].
token_types(S) == SelectSeq(S, LAMBDA e : e # Dynamic)

\* dynamic_field: whether a variant is marked #[dynamic].
dynamic_field(S) == \E i \in 1..Len(S) : S[i] = Dynamic

\* The position of the #[dynamic] variant among the variants.
dynamic_variant(S) == CHOOSE i \in 1..Len(S) : S[i] = Dynamic

\* The position of kind k in token_types.
type_index(S, k) == CHOOSE i \in 1..Len(token_types(S)) : token_types(S)[i] = k

\* Variant of offset_expr: every round adds 1, not the type's COUNT.
offset_expr_ordinal(S, n) == n

\* offset_expr after n rounds of the loop over token_types.
RECURSIVE offset_expr(_, _)
offset_expr(S, n) ==
    IF n = 0 THEN 0 ELSE offset_expr(S, n - 1) + COUNT[token_types(S)[n]]

\* Variant of OFFSET: the offset is advanced before it is assigned.
OFFSET_inclusive(S, k) == offset_expr(S, type_index(S, k))

\* Position<k>::OFFSET for the space S.
OFFSET(S, k) == offset_expr(S, type_index(S, k) - 1)

\* The sum #(#counts)+* over a list of token types.
RECURSIVE counts_sum(_)
counts_sum(tt) ==
    IF Len(tt) = 1 THEN COUNT[tt[1]] ELSE COUNT[tt[1]] + counts_sum(Tail(tt))

\* TokenSpace::RESERVED for the space S.
RESERVED(S) ==
    IF token_types(S) = <<>> THEN 0 ELSE counts_sum(token_types(S))

----------------------------------------------------------------------------
\* TokenSpace: the provided methods.

\* Variant of try_as: the id is converted without subtracting the offset.
try_as_unshifted(S, k, value) == ok(Token_try_from(k, value))

\* TokenSpace::try_as::<k>
try_as(S, k, value) ==
    LET start == OFFSET(S, k)
        v == checked_sub(value, start)
    IN  IF v.tag = "Some" THEN ok(Token_try_from(k, v.v)) ELSE None

\* Variant of at: the offset is not added.
at_local(S, token) == {U(Token_value(token))}

\* Position::at
at(S, token) == add(Token_value(token), OFFSET(S, token.kind))

\* TokenSpace::position_of
position_of(S, token) == at(S, token)

\* Variant of remainder: the id is returned without subtracting RESERVED.
remainder_unshifted(S, value) ==
    IF value >= RESERVED(S) THEN Some(value) ELSE None

\* Variant of remainder: only a space with a dynamic variant has remainders.
remainder_tail_only(S, value) ==
    IF dynamic_field(S) THEN checked_sub(value, RESERVED(S)) ELSE None

\* TokenSpace::remainder
remainder(S, value) == checked_sub(value, RESERVED(S))

\* Variant of is_reserved: the bound RESERVED itself counts as reserved.
is_reserved_inclusive(S, value) == value <= RESERVED(S)

\* TokenSpace::is_reserved
is_reserved(S, value) == value < RESERVED(S)

\* TokenSpace::after_reserved
after_reserved(S, value) == add(value, RESERVED(S))

\* RangeToken::inside::<S>(local): the position of a local value of a range
\* kind in the space, if the value is below the kind's COUNT.
inside(S, k, local) ==
    IF local < COUNT[k] THEN Some(OFFSET(S, k) + local) ELSE None

\* const_position!(S, k::variant), a constant expression.
const_position(S, k, ordinal) == OFFSET(S, k) + (ordinal - 1)

----------------------------------------------------------------------------
\* derive(Space): the generated codec.

\* variants.iter().zip(&token_types): the number of pairs.
zip_len(S) ==
    IF Len(S) < Len(token_types(S)) THEN Len(S) ELSE Len(token_types(S))

\* decode_arms: one try_as arm per zipped pair whose variant is not dynamic.
decode_arms(S) ==
    SelectSeq([i \in 1..zip_len(S) |->
                  [variant |-> i, token_type |-> token_types(S)[i]]],
              LAMBDA a : S[a.variant] # Dynamic)

\* The try_as arms, run in order; the first Some returns.
RECURSIVE run_arms(_, _, _)
run_arms(S, arms, id) ==
    IF arms = <<>> THEN None
    ELSE LET token == try_as(S, Head(arms).token_type, id)
         IN  IF token.tag = "Some"
             THEN Some(SpaceValue(Head(arms).variant, token.v))
             ELSE run_arms(S, Tail(arms), id)

\* Variant of Space_try_from: the dynamic arm wraps the id, not the remainder.
Space_try_from_raw_dynamic(S, id) ==
    LET static == run_arms(S, decode_arms(S), id)
    IN  IF static.tag = "Some" THEN Ok(static.v)
        ELSE IF dynamic_field(S) /\ remainder(S, id).tag = "Some"
        THEN Ok(SpaceValue(dynamic_variant(S), U(id)))
        ELSE OutOfRange(id, RESERVED(S))

\* Variant of Space_try_from: the error of the last token type's conversion
\* is returned instead of the space's own.
Space_try_from_inner_error(S, id) ==
    LET static == run_arms(S, decode_arms(S), id)
        last == token_types(S)[Len(token_types(S))]
    IN  IF static.tag = "Some" THEN Ok(static.v)
        ELSE IF dynamic_field(S) /\ remainder(S, id).tag = "Some"
        THEN Ok(SpaceValue(dynamic_variant(S), U(remainder(S, id).v)))
        ELSE IF token_types(S) # <<>> /\ id >= OFFSET(S, last)
        THEN Token_try_from(last, id - OFFSET(S, last))
        ELSE OutOfRange(id, RESERVED(S))

\* TryFrom<u32> for the space: the decode arms, the dynamic arm, the error.
Space_try_from(S, id) ==
    LET static == run_arms(S, decode_arms(S), id)
    IN  IF static.tag = "Some" THEN Ok(static.v)
        ELSE IF dynamic_field(S) /\ remainder(S, id).tag = "Some"
        THEN Ok(SpaceValue(dynamic_variant(S), U(remainder(S, id).v)))
        ELSE OutOfRange(id, RESERVED(S))

\* The decode arms of S taken in another order.
Orders(arms) ==
    {[i \in 1..Len(arms) |-> arms[p[i]]] :
        p \in {q \in [1..Len(arms) -> 1..Len(arms)] :
                  \A i, j \in 1..Len(arms) : q[i] = q[j] => i = j}}

\* try_from with the try_as arms run in the given order, the dynamic arm
\* and the error after them.
Space_try_from_in_order(S, arms, id) ==
    LET static == run_arms(S, arms, id)
    IN  IF static.tag = "Some" THEN Ok(static.v)
        ELSE IF dynamic_field(S) /\ remainder(S, id).tag = "Some"
        THEN Ok(SpaceValue(dynamic_variant(S), U(remainder(S, id).v)))
        ELSE OutOfRange(id, RESERVED(S))

\* value_arms: one position_of arm per zipped pair, then the dynamic arm.
value_arms(S) ==
    [i \in 1..zip_len(S) |-> [variant |-> i, dynamic |-> FALSE]]
    \o (IF dynamic_field(S)
        THEN <<[variant |-> dynamic_variant(S), dynamic |-> TRUE]>>
        ELSE <<>>)

\* Variant of Space_value: the dynamic arm returns the offset alone.
Space_value_raw_dynamic(S, sv) ==
    IF S[sv.variant] = Dynamic
    THEN {U(sv.payload.v)}
    ELSE position_of(S, sv.payload)

\* TokenSpace::value for the space: the first arm matching the variant.
Space_value(S, sv) ==
    LET n == CHOOSE i \in 1..Len(value_arms(S)) :
                 /\ value_arms(S)[i].variant = sv.variant
                 /\ \A j \in 1..(i - 1) : value_arms(S)[j].variant # sv.variant
    IN  IF value_arms(S)[n].dynamic
        THEN add(RESERVED(S), sv.payload.v)
        ELSE position_of(S, sv.payload)

\* The declarations for which the derive's output compiles: one #[dynamic]
\* at most, one Position impl per token type, every position_of arm on a
\* token (never on the dynamic u32), every variant covered by an arm.
derive_space_accepts(S) ==
    /\ Cardinality({i \in 1..Len(S) : S[i] = Dynamic}) <= 1
    /\ \A i, j \in 1..Len(S) : S[i] = S[j] => i = j
    /\ \A i \in 1..zip_len(S) : S[i] # Dynamic
    /\ \A i \in 1..Len(S) : i <= zip_len(S) \/ S[i] = Dynamic

----------------------------------------------------------------------------
\* The inputs a caller can build.

\* The token values of kind k: every declared variant of a Name enum, every
\* u32 wrapped by a range struct.
TokensOf(k) ==
    IF k \in RangeKinds
    THEN {RangeToken(k, n) : n \in U32}
    ELSE {NameToken(k, o) : o \in 1..COUNT[k]}

Tokens(S) == UNION {TokensOf(token_types(S)[i]) : i \in 1..Len(token_types(S))}

SpaceValues(S) ==
    UNION {IF S[i] = Dynamic
           THEN {SpaceValue(i, U(n)) : n \in U32}
           ELSE {SpaceValue(i, t) : t \in TokensOf(S[i])} : i \in 1..Len(S)}

Layouts ==
    {S \in UNION {[1..n -> LayoutKinds \cup {Dynamic}] :
                     n \in 0..(Cardinality(LayoutKinds) + 1)} :
        derive_space_accepts(S)}

KindsIn(S) == {S[i] : i \in 1..Len(S)} \ {Dynamic}

----------------------------------------------------------------------------
\* The state machine: a space is declared, then its operations are applied.

Init ==
    /\ variants \in Layouts
    /\ COUNT \in [KindsIn(variants) -> 0..MaxCount]
    /\ \A k \in KindsIn(variants) : k \in NameKinds => COUNT[k] >= 1
    /\ RESERVED(variants) <= U32_MAX
    /\ op = "declare"
    /\ arg = NoCall
    /\ res = NoCall
    /\ from = NoCall

Step(o, a, r, c) ==
    /\ op' = o
    /\ arg' = a
    /\ res' = r
    /\ from' = c
    /\ UNCHANGED <<variants, COUNT>>

\* The operations are pure and keep no state between calls, so a behaviour
\* is one expression: a call on a fresh input right after the declaration,
\* then at most one call on its result.
Fresh == op = "declare"
Piped == res.tag = "u32" /\ from.tag = "none"

TryFrom ==
    /\ Fresh
    /\ \E id \in U32 :
        Step("try_from", U(id), Space_try_from(variants, id), NoCall)

TryFromResult ==
    /\ Piped
    /\ Step("try_from", res, Space_try_from(variants, res.v), Call(op, arg))

TryAs ==
    /\ Fresh
    /\ \E k \in KindsIn(variants), id \in U32 :
        Step("try_as", [tag |-> "try_as", kind |-> k, v |-> id],
             try_as(variants, k, id), NoCall)

PositionOf ==
    /\ Fresh
    /\ \E t \in Tokens(variants) :
        \E r \in position_of(variants, t) :
            Step("position_of", t, r, NoCall)

ConstPosition ==
    /\ Fresh
    /\ \E t \in Tokens(variants) :
        /\ t.tag = "name"
        /\ const_position(variants, t.kind, t.ordinal) <= U32_MAX
        /\ Step("const_position", t,
                U(const_position(variants, t.kind, t.ordinal)), NoCall)

Remainder ==
    /\ Fresh
    /\ \E id \in U32 : Step("remainder", U(id), remainder(variants, id), NoCall)

RemainderResult ==
    /\ Piped
    /\ Step("remainder", res, remainder(variants, res.v), Call(op, arg))

IsReserved ==
    /\ Fresh
    /\ \E id \in U32 :
        Step("is_reserved", U(id), Bool(is_reserved(variants, id)), NoCall)

IsReservedResult ==
    /\ Piped
    /\ Step("is_reserved", res, Bool(is_reserved(variants, res.v)), Call(op, arg))

AfterReserved ==
    /\ Fresh
    /\ \E id \in U32 :
        \E r \in after_reserved(variants, id) :
            Step("after_reserved", U(id), r, NoCall)

Value ==
    /\ Fresh
    /\ \E sv \in SpaceValues(variants) :
        \E r \in Space_value(variants, sv) :
            Step("value", sv, r, NoCall)

ValueResult ==
    /\ op = "try_from" /\ res.tag = "Ok" /\ from.tag = "none"
    /\ \E r \in Space_value(variants, res.v) :
           Step("value", res.v, r, Call(op, arg))

TokenTryFrom ==
    /\ Fresh
    /\ \E k \in KindsIn(variants), value \in U32 :
        Step("token_try_from", [tag |-> "token_try_from", kind |-> k, v |-> value],
             Token_try_from(k, value), NoCall)

TokenTryFromResult ==
    /\ op = "token_value" /\ from.tag = "none"
    /\ Step("token_try_from",
            [tag |-> "token_try_from", kind |-> arg.kind, v |-> res.v],
            Token_try_from(arg.kind, res.v), Call(op, arg))

TokenValue ==
    /\ Fresh
    /\ \E t \in Tokens(variants) :
        Step("token_value", t, U(Token_value(t)), NoCall)

TokenValueResult ==
    /\ op = "token_try_from" /\ res.tag = "Ok" /\ from.tag = "none"
    /\ Step("token_value", res.v, U(Token_value(res.v)), Call(op, arg))

Inside ==
    /\ Fresh
    /\ \E k \in KindsIn(variants) \cap RangeKinds, local \in U32 :
        Step("inside", [tag |-> "inside", kind |-> k, v |-> local],
             inside(variants, k, local), NoCall)

TryFromInOrder ==
    /\ Fresh
    /\ \E arms \in Orders(decode_arms(variants)), id \in U32 :
        Step("try_from_in_order", [tag |-> "in_order", arms |-> arms, v |-> id],
             Space_try_from_in_order(variants, arms, id), NoCall)

Next ==
    \/ TokenTryFrom
    \/ TokenTryFromResult
    \/ TokenValue
    \/ TokenValueResult
    \/ TryFrom
    \/ TryFromResult
    \/ TryAs
    \/ PositionOf
    \/ ConstPosition
    \/ Remainder
    \/ RemainderResult
    \/ IsReserved
    \/ IsReservedResult
    \/ AfterReserved
    \/ Value
    \/ ValueResult
    \/ Inside
    \/ TryFromInOrder

Spec == Init /\ [][Next]_vars

----------------------------------------------------------------------------
\* The space of control tokens (GingerToken, COUNT 5), operator tokens
\* (MaoToken, COUNT 4), text tokens (TextTokens, a range of 1000) and a
\* dynamic tail, with ids up to ScenarioMaxId.

GingerToken_COUNT == 5
MaoToken_COUNT == 4
TextTokens_COUNT == 1000
\* Largest id decoded in this space.
ScenarioMaxId == 2000

ScenarioInit ==
    /\ variants = <<"GingerToken", "MaoToken", "TextTokens", Dynamic>>
    /\ COUNT = [k \in {"GingerToken", "MaoToken", "TextTokens"} |->
                   IF k = "GingerToken" THEN GingerToken_COUNT
                   ELSE IF k = "MaoToken" THEN MaoToken_COUNT
                   ELSE TextTokens_COUNT]
    /\ derive_space_accepts(variants)
    /\ op = "declare"
    /\ arg = NoCall
    /\ res = NoCall
    /\ from = NoCall

ScenarioTryFrom ==
    /\ Fresh
    /\ \E id \in 0..ScenarioMaxId :
        Step("try_from", U(id), Space_try_from(variants, id), NoCall)

ScenarioTryAs ==
    /\ Fresh
    /\ \E k \in KindsIn(variants), id \in 0..ScenarioMaxId :
        Step("try_as", [tag |-> "try_as", kind |-> k, v |-> id],
             try_as(variants, k, id), NoCall)

ScenarioNext ==
    \/ ScenarioTryFrom
    \/ ScenarioTryAs

ScenarioSpec == ScenarioInit /\ [][ScenarioNext]_vars

----------------------------------------------------------------------------
\* derive(Space) on a declaration: the macro's expansion, then the
\* compilation of the expanded code.

\* Longest enum declaration handed to the derive.
MaxVariants == 4

\* The enum declarations: each variant holds a token type of its own or is
\* marked #[dynamic], any number of times and at any place.
Declarations ==
    {S \in UNION {[1..n -> LayoutKinds \cup {Dynamic}] : n \in 0..MaxVariants} :
        \A i, j \in 1..Len(S) : (S[i] = S[j] /\ S[i] # Dynamic) => i = j}

\* The number of variants marked #[dynamic].
dynamic_markers(S) == Cardinality({i \in 1..Len(S) : S[i] = Dynamic})

\* The macro's return value: the compile error of the second #[dynamic], or
\* the expansion with its Position impls, RESERVED and arms.
derive_space(S) ==
    IF dynamic_markers(S) > 1
    THEN [tag |-> "compile_error",
          message |-> "Only one variant can be marked as #[dynamic]"]
    ELSE [tag |-> "expanded",
          OFFSET |-> [k \in KindsIn(S) |-> OFFSET(S, k)],
          RESERVED |-> RESERVED(S),
          decode_arms |-> decode_arms(S),
          value_arms |-> value_arms(S)]

\* The compiler on the expansion: the codec, or the type errors of a
\* position_of arm on the dynamic u32 and of a variant without an arm.
compile(S, expanded) ==
    IF derive_space_accepts(S)
    THEN [tag |-> "codec", decode_arms |-> expanded.decode_arms,
          value_arms |-> expanded.value_arms]
    ELSE [tag |-> "compile_error", message |-> "expansion does not type-check"]

DeriveInit ==
    /\ variants \in Declarations
    /\ COUNT \in [KindsIn(variants) -> 0..MaxCount]
    /\ \A k \in KindsIn(variants) : k \in NameKinds => COUNT[k] >= 1
    /\ RESERVED(variants) <= U32_MAX
    /\ op = "declare"
    /\ arg = NoCall
    /\ res = NoCall
    /\ from = NoCall

DeriveSpace ==
    /\ Fresh
    /\ Step("derive_space", NoCall, derive_space(variants), NoCall)

Compile ==
    /\ op = "derive_space"
    /\ res.tag = "expanded"
    /\ Step("compile", res, compile(variants, res), Call(op, arg))

DeriveNext ==
    \/ DeriveSpace
    \/ Compile

DeriveSpec == DeriveInit /\ [][DeriveNext]_vars

----------------------------------------------------------------------------
\* GingerSpace and DynamicGingerSpace: the same four token types, written by
\* hand, the second with a dynamic variant. The ids and local values used
\* here stay far below u32::MAX, so the additions are exact.

SingleToken_COUNT == 1
\* Largest id and largest range value tried on the two spaces.
GingerMaxId == 1100

GingerSpace_variants == <<"GingerToken", "MaoToken", "SingleToken", "TextTokens">>
DynamicGingerSpace_variants == GingerSpace_variants \o <<Dynamic>>

\* impl Position<T> for GingerSpace
GingerSpace_OFFSET(k) ==
    CASE k = "MaoToken" -> COUNT["GingerToken"]
      [] k = "GingerToken" -> 0
      [] k = "SingleToken" -> COUNT["GingerToken"] + COUNT["MaoToken"]
      [] k = "TextTokens" ->
             COUNT["GingerToken"] + COUNT["MaoToken"] + COUNT["SingleToken"]

\* GingerSpace::RESERVED
GingerSpace_RESERVED ==
    COUNT["GingerToken"] + COUNT["MaoToken"] + COUNT["SingleToken"] + COUNT["TextTokens"]

\* GingerSpace::position_of
GingerSpace_position_of(token) == Token_value(token) + GingerSpace_OFFSET(token.kind)

\* Option::map(GingerSpace::<Variant>) and ok_or(OutOfRange) of the match.
GingerSpace_arm(i, token, id) ==
    IF token.tag = "Some"
    THEN Ok(SpaceValue(i, token.v))
    ELSE OutOfRange(id, GingerSpace_RESERVED)

\* Variant of GingerSpace_try_from: the MaoToken arm subtracts 4, not 5.
GingerSpace_try_from_shifted(id) ==
    IF id <= 4 THEN GingerSpace_arm(1, ok(Token_try_from("GingerToken", id)), id)
    ELSE IF id <= 8 THEN GingerSpace_arm(2, ok(Token_try_from("MaoToken", id - 4)), id)
    ELSE IF id = 9 THEN GingerSpace_arm(3, ok(Token_try_from("SingleToken", id - 9)), id)
    ELSE IF id <= 1009 THEN GingerSpace_arm(4, ok(Token_try_from("TextTokens", id - 10)), id)
    ELSE OutOfRange(id, GingerSpace_RESERVED)

\* TryFrom<u32> for GingerSpace: the match on literal ranges.
GingerSpace_try_from(id) ==
    IF id <= 4 THEN GingerSpace_arm(1, ok(Token_try_from("GingerToken", id)), id)
    ELSE IF id <= 8 THEN GingerSpace_arm(2, ok(Token_try_from("MaoToken", id - 5)), id)
    ELSE IF id = 9 THEN GingerSpace_arm(3, ok(Token_try_from("SingleToken", id - 9)), id)
    ELSE IF id <= 1009 THEN GingerSpace_arm(4, ok(Token_try_from("TextTokens", id - 10)), id)
    ELSE OutOfRange(id, GingerSpace_RESERVED)

\* impl Position<T> for DynamicGingerSpace
DynamicGingerSpace_OFFSET(k) ==
    CASE k = "MaoToken" -> COUNT["GingerToken"]
      [] k = "GingerToken" -> 0
      [] k = "SingleToken" -> COUNT["GingerToken"] + COUNT["MaoToken"]
      [] k = "TextTokens" ->
             COUNT["GingerToken"] + COUNT["MaoToken"] + COUNT["SingleToken"]

\* DynamicGingerSpace::RESERVED
DynamicGingerSpace_RESERVED ==
    COUNT["GingerToken"] + COUNT["MaoToken"] + COUNT["SingleToken"] + COUNT["TextTokens"]

\* DynamicGingerSpace::position_of
DynamicGingerSpace_position_of(token) ==
    Token_value(token) + DynamicGingerSpace_OFFSET(token.kind)

\* DynamicGingerSpace::try_as::<k>, the provided method over this space's OFFSET.
DynamicGingerSpace_try_as(k, value) ==
    LET start == DynamicGingerSpace_OFFSET(k)
        v == checked_sub(value, start)
    IN  IF v.tag = "Some" THEN ok(Token_try_from(k, v.v)) ELSE None

\* TryFrom<u32> for DynamicGingerSpace: try_as per token type in turn, then
\* the remainder; the unreachable! after them panics.
DynamicGingerSpace_try_from(id) ==
    IF DynamicGingerSpace_try_as("GingerToken", id).tag = "Some"
    THEN Ok(SpaceValue(1, DynamicGingerSpace_try_as("GingerToken", id).v))
    ELSE IF DynamicGingerSpace_try_as("MaoToken", id).tag = "Some"
    THEN Ok(SpaceValue(2, DynamicGingerSpace_try_as("MaoToken", id).v))
    ELSE IF DynamicGingerSpace_try_as("SingleToken", id).tag = "Some"
    THEN Ok(SpaceValue(3, DynamicGingerSpace_try_as("SingleToken", id).v))
    ELSE IF DynamicGingerSpace_try_as("TextTokens", id).tag = "Some"
    THEN Ok(SpaceValue(4, DynamicGingerSpace_try_as("TextTokens", id).v))
    ELSE IF checked_sub(id, DynamicGingerSpace_RESERVED).tag = "Some"
    THEN Ok(SpaceValue(5, U(checked_sub(id, DynamicGingerSpace_RESERVED).v)))
    ELSE Panic

\* The token values tried on the two spaces.
GingerTokens ==
    UNION {{NameToken(k, o) : o \in 1..COUNT[k]} :
              k \in {"GingerToken", "MaoToken", "SingleToken"}}
        \cup {RangeToken("TextTokens", n) : n \in 0..GingerMaxId}

GingerInit ==
    /\ variants = DynamicGingerSpace_variants
    /\ COUNT = [k \in {"GingerToken", "MaoToken", "SingleToken", "TextTokens"} |->
                   CASE k = "GingerToken" -> GingerToken_COUNT
                     [] k = "MaoToken" -> MaoToken_COUNT
                     [] k = "SingleToken" -> SingleToken_COUNT
                     [] k = "TextTokens" -> TextTokens_COUNT]
    /\ op = "declare"
    /\ arg = NoCall
    /\ res = NoCall
    /\ from = NoCall

GingerTryFrom ==
    /\ Fresh
    /\ \E id \in 0..GingerMaxId :
        Step("GingerSpace::try_from", U(id), GingerSpace_try_from(id), NoCall)

DynamicGingerTryFrom ==
    /\ Fresh
    /\ \E id \in 0..GingerMaxId :
        Step("DynamicGingerSpace::try_from", U(id), DynamicGingerSpace_try_from(id), NoCall)

GingerPositionOf ==
    /\ Fresh
    /\ \E token \in GingerTokens :
        Step("GingerSpace::position_of", token, U(GingerSpace_position_of(token)), NoCall)

DynamicGingerPositionOf ==
    /\ Fresh
    /\ \E token \in GingerTokens :
        Step("DynamicGingerSpace::position_of", token,
             U(DynamicGingerSpace_position_of(token)), NoCall)

GingerNext ==
    \/ GingerTryFrom
    \/ DynamicGingerTryFrom
    \/ GingerPositionOf
    \/ DynamicGingerPositionOf

GingerSpec == GingerInit /\ [][GingerNext]_vars

----------------------------------------------------------------------------
\* Token kinds reused in a second space: the declared space and another
\* derived space over some of the same token types.

\* The spaces that share at least one token type with the space S.
SpacesReusing(S) ==
    {T \in Layouts : KindsIn(T) # {} /\ KindsIn(T) \subseteq KindsIn(S)}

In(T, k, value) == [tag |-> "in", space |-> T, kind |-> k, v |-> value]

TryAsIn ==
    /\ Fresh
    /\ \E T \in SpacesReusing(variants) :
        \E k \in KindsIn(T), id \in U32 :
            Step("try_as_in", In(T, k, id), try_as(T, k, id), NoCall)

PositionOfIn ==
    /\ Fresh
    /\ \E T \in SpacesReusing(variants) :
        \E token \in Tokens(T) :
            \E r \in position_of(T, token) :
                Step("position_of_in", In(T, token.kind, token), r, NoCall)

ReuseNext ==
    \/ TryAsIn
    \/ PositionOfIn

ReuseSpec == Init /\ [][ReuseNext]_vars

----------------------------------------------------------------------------
\* Streams of raw ids: the iterator adaptors of TokenIter and TokenFilter.

\* Longest input stream.
MaxLen == 2
\* Largest vocab_size of a space value handed to tails.
MaxVocab == 6

Stream(items) == [tag |-> "stream", items |-> items]

\* Iterator::map with the closure given as a function on the ids.
RECURSIVE map(_, _)
map(f, ids) ==
    IF ids = <<>> THEN <<>> ELSE <<f[Head(ids)]>> \o map(f, Tail(ids))

\* Iterator::filter_map: keeps the payload of every Some, in order.
RECURSIVE filter_map(_, _)
filter_map(f, ids) ==
    IF ids = <<>>
    THEN <<>>
    ELSE LET r == f[Head(ids)]
             rest == filter_map(f, Tail(ids))
         IN  IF r.tag = "Some" THEN <<r.v>> \o rest ELSE rest

\* Draining an adaptor whose closure panics on some element aborts.
panics(f, ids) == \E i \in 1..Len(ids) : f[ids[i]] = Panic

\* The outcome of an arithmetic operation in a build with overflow checks
\* (it panics where it overflows) or without them (it wraps).
outcome(rs, overflow_checks) ==
    IF overflow_checks /\ Panic \in rs THEN Panic ELSE CHOOSE r \in rs : r # Panic

\* Variant of TokenIter_remainders: static ids pass through unchanged.
TokenIter_remainders_keep_static(S, ids) ==
    filter_map([id \in U32 |->
                   IF remainder(S, id).tag = "Some" THEN remainder(S, id) ELSE Some(id)],
               ids)

\* TokenIter::remainders
TokenIter_remainders(S, ids) ==
    filter_map([id \in U32 |-> remainder(S, id)], ids)

\* Variant of TokenIter_decode: the stream ends at the first id that fails.
TokenIter_decode_fused(S, ids) ==
    LET r == map([id \in U32 |-> Space_try_from(S, id)], ids)
        ok_prefix == {n \in 0..Len(r) : \A i \in 1..n : r[i].tag = "Ok"}
        n == CHOOSE m \in ok_prefix : \A q \in ok_prefix : q <= m
    IN  SubSeq(r, 1, n)

\* TokenIter::decode
TokenIter_decode(S, ids) ==
    map([id \in U32 |-> Space_try_from(S, id)], ids)

\* TokenIter::after_reserved, drained.
TokenIter_after_reserved(S, ids, overflow_checks) ==
    LET f == [id \in U32 |-> outcome(after_reserved(S, id), overflow_checks)]
        r == map(f, ids)
    IN  IF panics(f, ids) THEN Panic ELSE Stream([i \in 1..Len(r) |-> r[i].v])

\* Variant of is: the id is converted without subtracting the offset.
is_unshifted(S, k, value) ==
    LET start == OFFSET(S, k)
    IN  IF value >= start /\ value < start + COUNT[k]
        THEN ok(Token_try_from(k, value))
        ELSE None

\* TokenSpace::is
is(S, k, value) ==
    LET start == OFFSET(S, k)
    IN  IF value >= start /\ value < start + COUNT[k]
        THEN ok(Token_try_from(k, value - start))
        ELSE None

\* TokenSpace::to
to(S, k, value) ==
    LET start == OFFSET(S, k)
    IN  IF value >= start /\ value < start + COUNT[k]
        THEN Some(value - start)
        ELSE None

\* TokenSpace::count of a space value with a dynamic vocabulary.
count(S, vocab_size) == add(RESERVED(S), vocab_size)

\* Variant of tail: the value is not compared with count().
tail_unbounded(S, vocab_size, overflow_checks, value) ==
    IF value >= RESERVED(S) THEN Some(value - RESERVED(S)) ELSE None

\* TokenSpace::tail; count() is only evaluated for value >= RESERVED.
tail(S, vocab_size, overflow_checks, value) ==
    IF value >= RESERVED(S)
    THEN LET c == outcome(count(S, vocab_size), overflow_checks)
         IN  IF c = Panic THEN Panic
             ELSE IF value < c.v THEN Some(value - RESERVED(S)) ELSE None
    ELSE None

\* Option::map(|_| id)
map_to_id(r, id) == IF r.tag = "Some" THEN Some(id) ELSE r

\* TokenFilter::tails, drained.
TokenFilter_tails(S, vocab_size, overflow_checks, ids) ==
    LET f == [id \in U32 |-> map_to_id(tail(S, vocab_size, overflow_checks, id), id)]
    IN  IF panics(f, ids) THEN Panic ELSE Stream(filter_map(f, ids))

\* TokenFilter::specials
TokenFilter_specials(S, k, ids) ==
    filter_map([id \in U32 |-> is(S, k, id)], ids)

\* Variant of TokenFilter_ranges: yields the offsets within the range.
TokenFilter_ranges_offsets(S, k, ids) ==
    filter_map([id \in U32 |-> to(S, k, id)], ids)

\* TokenFilter::ranges
TokenFilter_ranges(S, k, ids) ==
    filter_map([id \in U32 |-> map_to_id(to(S, k, id), id)], ids)

\* filter_map(|id| S::try_as::<T>(id))
filter_map_try_as(S, k, ids) ==
    filter_map([id \in U32 |-> try_as(S, k, id)], ids)

\* The spaces the streams run over.
ComplexAlternatingSpace ==
    [variants |-> <<"FirstName", "FirstRange", "SecondName", "SecondRange", Dynamic>>,
     COUNT |-> [k \in {"FirstName", "FirstRange", "SecondName", "SecondRange"} |->
                   IF k \in {"FirstName", "SecondRange"} THEN 2 ELSE 3]]

BoundarySpace ==
    [variants |-> <<"SingleRangeToken", "TinyToken">>,
     COUNT |-> [k \in {"SingleRangeToken", "TinyToken"} |-> 1]]

OnlyDynamicSpace ==
    [variants |-> <<Dynamic>>,
     COUNT |-> [k \in {} |-> 0]]

StreamSpaces == {ComplexAlternatingSpace, BoundarySpace, OnlyDynamicSpace}

\* The input streams: every sequence of at most MaxLen ids.
Streams == UNION {[1..n -> U32] : n \in 0..MaxLen}

StreamInit ==
    /\ \E space \in StreamSpaces :
        /\ variants = space.variants
        /\ COUNT = space.COUNT
    /\ derive_space_accepts(variants)
    /\ RESERVED(variants) <= U32_MAX
    /\ op = "declare"
    /\ arg = NoCall
    /\ res = NoCall
    /\ from = NoCall

Ids(ids) == [tag |-> "ids", ids |-> ids]
KindIds(k, ids) == [tag |-> "ids", kind |-> k, ids |-> ids]
SpaceIds(vocab_size, overflow_checks, ids) ==
    [tag |-> "ids", vocab_size |-> vocab_size,
     overflow_checks |-> overflow_checks, ids |-> ids]

\* An adaptor applied to the stream another adaptor produced.
PipedOn(o) == op = o /\ from.tag = "none" /\ res.tag = "stream"

Decode ==
    /\ Fresh
    /\ \E ids \in Streams :
        Step("decode", Ids(ids), Stream(TokenIter_decode(variants, ids)), NoCall)

Remainders ==
    /\ Fresh
    /\ \E ids \in Streams :
        Step("remainders", Ids(ids), Stream(TokenIter_remainders(variants, ids)), NoCall)

StreamAfterReserved ==
    /\ Fresh
    /\ \E ids \in Streams, overflow_checks \in BOOLEAN :
        Step("stream_after_reserved", Ids(ids),
             TokenIter_after_reserved(variants, ids, overflow_checks), NoCall)

RemaindersResult ==
    /\ PipedOn("stream_after_reserved")
    /\ Step("remainders", Ids(res.items),
            Stream(TokenIter_remainders(variants, res.items)), Call(op, arg))

FilterTryAs ==
    /\ Fresh
    /\ \E k \in KindsIn(variants), ids \in Streams :
        Step("filter_try_as", KindIds(k, ids),
             Stream(filter_map_try_as(variants, k, ids)), NoCall)

Specials ==
    /\ Fresh
    /\ \E k \in KindsIn(variants) \cap NameKinds, ids \in Streams :
        Step("specials", KindIds(k, ids),
             Stream(TokenFilter_specials(variants, k, ids)), NoCall)

Ranges ==
    /\ Fresh
    /\ \E k \in KindsIn(variants) \cap RangeKinds, ids \in Streams :
        Step("ranges", KindIds(k, ids),
             Stream(TokenFilter_ranges(variants, k, ids)), NoCall)

RangesResult ==
    /\ PipedOn("ranges")
    /\ Step("ranges", KindIds(arg.kind, res.items),
            Stream(TokenFilter_ranges(variants, arg.kind, res.items)), Call(op, arg))

Tails ==
    /\ Fresh
    /\ \E vocab_size \in 0..MaxVocab, overflow_checks \in BOOLEAN, ids \in Streams :
        Step("tails", SpaceIds(vocab_size, overflow_checks, ids),
             TokenFilter_tails(variants, vocab_size, overflow_checks, ids), NoCall)

TailsResult ==
    /\ PipedOn("tails")
    /\ Step("tails", SpaceIds(arg.vocab_size, arg.overflow_checks, res.items),
            TokenFilter_tails(variants, arg.vocab_size, arg.overflow_checks, res.items),
            Call(op, arg))

TailCall ==
    /\ Fresh
    /\ \E vocab_size \in 0..MaxVocab, overflow_checks \in BOOLEAN, id \in U32 :
        Step("tail",
             [tag |-> "tail", vocab_size |-> vocab_size,
              overflow_checks |-> overflow_checks, v |-> id],
             tail(variants, vocab_size, overflow_checks, id), NoCall)

StreamNext ==
    \/ Decode
    \/ Remainders
    \/ StreamAfterReserved
    \/ RemaindersResult
    \/ FilterTryAs
    \/ Specials
    \/ Ranges
    \/ RangesResult
    \/ Tails
    \/ TailsResult
    \/ TailCall

StreamSpec == StreamInit /\ [][StreamNext]_vars

----------------------------------------------------------------------------
\* Vocabulary of the properties.

S0 == variants
TT == token_types(variants)
R0 == RESERVED(variants)

\* The sum of COUNT over the first n token types, counted as a set of slots.
Slots(n) ==
    Cardinality({p \in (1..Len(TT)) \X (1..MaxCount) :
                     p[1] <= n /\ p[2] <= COUNT[TT[p[1]]]})

\* The enum variant whose field is kind k.
VariantOf(k) == CHOOSE i \in 1..Len(S0) : S0[i] = k

\* A token whose local value is below its kind's COUNT.
ValidToken(t) == Token_value(t) < COUNT[t.kind]

\* id lies in the sub-range of kind k.
InRange(k, id) == OFFSET(S0, k) <= id /\ id < OFFSET(S0, k) + COUNT[k]

\* The last call was o on a fresh input.
Did(o) == op = o /\ from.tag = "none"

\* The last call was o on the result of a fresh call of p.
DidOn(o, p) == op = o /\ from.tag = "call" /\ from.op = p

----------------------------------------------------------------------------
\* C1: in every layout the offset of the i-th token type is the sum of COUNT
\* over the token types before it (0 for the first), RESERVED is the sum of
\* COUNT over all of them (0 when there is none), and the #[dynamic] variant
\* contributes to neither.
C1_OffsetsArePrefixSums ==
    Fresh =>
        /\ \A i \in 1..Len(TT) : OFFSET(S0, TT[i]) = Slots(i - 1)
        /\ R0 = Slots(Len(TT))
        /\ \A i \in 1..Len(TT) : OFFSET(S0, TT[i]) = OFFSET(TT, TT[i])
        /\ R0 = RESERVED(TT)

C1_Witness ==
    /\ Fresh
    /\ Len(TT) = 3
    /\ dynamic_field(S0)
    /\ \A i \in 1..3 : COUNT[TT[i]] >= 1
    /\ COUNT[TT[1]] # COUNT[TT[2]]
    /\ OFFSET(S0, TT[3]) = COUNT[TT[1]] + COUNT[TT[2]]

\* C2: the sub-ranges are contiguous from 0 to RESERVED, and for every id
\* below RESERVED exactly one token type's try_as succeeds, for every id at
\* or above RESERVED none does.
C2_DisjointCover ==
    /\ Fresh =>
           /\ \A i \in 1..Len(TT) :
                  OFFSET(S0, TT[i]) + COUNT[TT[i]] =
                      IF i = Len(TT) THEN R0 ELSE OFFSET(S0, TT[i + 1])
           /\ Len(TT) >= 1 => OFFSET(S0, TT[1]) = 0
    /\ Did("try_as") =>
           /\ Cardinality({k \in KindsIn(S0) :
                               try_as(S0, k, arg.v).tag = "Some"})
                  = IF arg.v < R0 THEN 1 ELSE 0
           /\ res.tag = "Some" =>
                  /\ arg.v < R0
                  /\ InRange(arg.kind, arg.v)
                  /\ \A k \in KindsIn(S0) \ {arg.kind} :
                         try_as(S0, k, arg.v).tag = "None"

C2_Witness ==
    /\ Did("try_as")
    /\ res.tag = "Some"
    /\ Len(TT) = 3
    /\ arg.kind = TT[3]
    /\ COUNT[TT[2]] >= 1
    /\ arg.v = R0 - 1

\* C3: decoding the id that position_of (or value() of the space value)
\* gives for a valid token of a composed kind yields the variant of that
\* kind wrapping the same token.
C3_StaticRoundTrip ==
    /\ DidOn("try_from", "position_of") /\ ValidToken(from.arg) =>
           /\ res.tag = "Ok"
           /\ res.v = SpaceValue(VariantOf(from.arg.kind), from.arg)
    /\ ( /\ DidOn("try_from", "value")
         /\ S0[from.arg.variant] # Dynamic
         /\ ValidToken(from.arg.payload) ) =>
           /\ res.tag = "Ok"
           /\ res.v = from.arg

C3_Witness ==
    /\ DidOn("try_from", "position_of")
    /\ ValidToken(from.arg)
    /\ from.arg.tag = "range"
    /\ OFFSET(S0, from.arg.kind) >= 2
    /\ from.arg.n >= 1
    /\ res.tag = "Ok"

\* C4, as claimed: with a dynamic tail, for every u32 offset, after_reserved
\* returns a value that is not reserved and whose remainder is the offset.
C4_DynamicRoundTripAllOffsets ==
    dynamic_field(S0) =>
        /\ Did("after_reserved") => res.tag = "u32"
        /\ DidOn("remainder", "after_reserved") => res = Some(from.arg.v)
        /\ DidOn("is_reserved", "after_reserved") => res.b = FALSE

\* C4, amended: the same for every offset with offset + RESERVED <= u32::MAX.
C4_DynamicRoundTrip ==
    dynamic_field(S0) =>
        /\ Did("after_reserved") /\ arg.v + R0 <= U32_MAX =>
               res = U(arg.v + R0)
        /\ ( /\ DidOn("remainder", "after_reserved")
             /\ from.arg.v + R0 <= U32_MAX ) => res = Some(from.arg.v)
        /\ ( /\ DidOn("is_reserved", "after_reserved")
             /\ from.arg.v + R0 <= U32_MAX ) => res.b = FALSE

C4_Witness ==
    /\ dynamic_field(S0)
    /\ DidOn("remainder", "after_reserved")
    /\ R0 >= 2
    /\ from.arg.v + R0 = U32_MAX
    /\ res.tag = "Some"

\* C5: with a dynamic tail try_from fails on no u32 id: below RESERVED it
\* yields a static variant, at or above RESERVED the dynamic variant carrying
\* id - RESERVED (id itself when there is no static kind).
C5_DynamicDecodeTotal ==
    Did("try_from") /\ dynamic_field(S0) =>
        /\ res.tag = "Ok"
        /\ arg.v < R0 => S0[res.v.variant] # Dynamic
        /\ arg.v >= R0 =>
               res.v = SpaceValue(dynamic_variant(S0), U(arg.v - R0))
        /\ Len(TT) = 0 => res.v.payload = arg

C5_Witness ==
    /\ Did("try_from")
    /\ dynamic_field(S0)
    /\ Len(TT) = 0
    /\ arg.v = U32_MAX
    /\ res.tag = "Ok"

\* C6: without a dynamic tail try_from succeeds exactly on the ids below
\* RESERVED: it succeeds on RESERVED - 1 and fails on RESERVED with
\* OutOfRange { value: RESERVED, max: RESERVED }.
C6_Boundary ==
    Did("try_from") /\ ~dynamic_field(S0) =>
        /\ res.tag = "Ok" <=> arg.v < R0
        /\ arg.v = R0 - 1 => res.tag = "Ok"
        /\ arg.v = R0 => res = OutOfRange(R0, R0)

C6_Witness ==
    /\ Did("try_from")
    /\ ~dynamic_field(S0)
    /\ Len(TT) >= 2
    /\ arg.v = R0 - 1
    /\ res.tag = "Ok"

\* C7: when try_from fails, the layout has no dynamic tail, the id is at or
\* above RESERVED, and the error is OutOfRange with the id itself as value
\* and RESERVED as max.
C7_ErrorPayload ==
    Did("try_from") /\ res.tag = "Err" =>
        /\ ~dynamic_field(S0)
        /\ arg.v >= R0
        /\ res.value = arg.v
        /\ res.max = R0

C7_Witness ==
    /\ Did("try_from")
    /\ res.tag = "Err"
    /\ Len(TT) >= 2
    /\ OFFSET(S0, TT[Len(TT)]) >= 1
    /\ COUNT[TT[Len(TT)]] >= 1
    /\ arg.v > R0

\* C8: try_as::<K>(id) is Some of the token of K with local value
\* id - OFFSET(K) when OFFSET(K) <= id < OFFSET(K) + COUNT(K), and None for
\* every other id; it is never an error.
C8_TryAs ==
    Did("try_as") =>
        /\ res.tag \in {"Some", "None"}
        /\ res.tag = "Some" <=> InRange(arg.kind, arg.v)
        /\ res.tag = "Some" =>
               /\ res.v.kind = arg.kind
               /\ Token_value(res.v) = arg.v - OFFSET(S0, arg.kind)
               /\ res.v \in TokensOf(arg.kind)

C8_Witness ==
    /\ Did("try_as")
    /\ res.tag = "None"
    /\ arg.v < R0
    /\ arg.v >= OFFSET(S0, arg.kind) + COUNT[arg.kind]
    /\ COUNT[arg.kind] >= 1
    /\ OFFSET(S0, arg.kind) >= 1

\* C9: position_of a valid token of K is OFFSET(K) plus the token's local
\* value, and const_position! of a Name variant is the id position_of
\* returns for it.
C9_Encode ==
    /\ Did("position_of") /\ ValidToken(arg) =>
           res = U(OFFSET(S0, arg.kind) + Token_value(arg))
    /\ Did("const_position") =>
           /\ res = U(OFFSET(S0, arg.kind) + (arg.ordinal - 1))
           /\ position_of(S0, arg) = {res}

C9_Witness ==
    /\ Did("const_position")
    /\ OFFSET(S0, arg.kind) >= 2
    /\ arg.ordinal >= 2

\* C10: value() of the space value that try_from returned for an id is that
\* id, and computing it does not overflow.
C10_ReverseRoundTrip ==
    DidOn("value", "try_from") => res = from.arg

C10_Witness ==
    /\ DidOn("value", "try_from")
    /\ dynamic_field(S0)
    /\ R0 >= 2
    /\ from.arg.v = U32_MAX
    /\ res.tag = "u32"

\* C11: try_as on an id below the kind's OFFSET is None (the subtraction is
\* checked: no error, no wrapped local value), and on an id at or above
\* RESERVED, up to the largest id of the word, it is None as well.
C11_NoWrapAround ==
    Did("try_as") =>
        /\ arg.v < OFFSET(S0, arg.kind) => res = None
        /\ arg.v >= R0 => res = None
        /\ arg.v = U32_MAX => res = None

C11_Witness ==
    /\ Did("try_as")
    /\ arg.v = OFFSET(S0, arg.kind) - 1
    /\ COUNT[arg.kind] >= 1
    /\ res = None

\* C12: control tokens (COUNT 5), operator tokens (COUNT 4) and text tokens
\* (a range of 1000) composed in that order with a dynamic tail have the
\* offsets 0, 5 and 9 and RESERVED 1009; 5 decodes to the operator with
\* local value 0, 9 to text 0, 1009 to dynamic 0 and 2000 to dynamic 991.
C12_Scenario ==
    /\ OFFSET(S0, "GingerToken") = 0
    /\ OFFSET(S0, "MaoToken") = 5
    /\ OFFSET(S0, "TextTokens") = 9
    /\ R0 = 1009
    /\ Did("try_from") =>
           /\ arg.v = 5 => res = Ok(SpaceValue(2, NameToken("MaoToken", 1)))
           /\ arg.v = 9 => res = Ok(SpaceValue(3, RangeToken("TextTokens", 0)))
           /\ arg.v = 1009 => res = Ok(SpaceValue(4, U(0)))
           /\ arg.v = 2000 => res = Ok(SpaceValue(4, U(991)))
           /\ res.tag = "Ok" /\ S0[res.v.variant] = "MaoToken" =>
                  Token_value(res.v.payload) = arg.v - 5

C12_Witness ==
    /\ Did("try_from")
    /\ arg.v = 2000
    /\ res.tag = "Ok"
    /\ S0[res.v.variant] = Dynamic

\* A token type with COUNT = 0 standing between two token types with
\* COUNT > 0, and the layout without it.
EmptyBetween(i) ==
    /\ 1 < i /\ i < Len(TT)
    /\ COUNT[TT[i]] = 0
    /\ COUNT[TT[i - 1]] > 0
    /\ COUNT[TT[i + 1]] > 0

Without(S, k) == SelectSeq(S, LAMBDA e : e # k)

\* The same decode result up to the numbering of the variants.
SameDecode(S, r, T, q) ==
    /\ r.tag = q.tag
    /\ r.tag = "Ok" => S[r.v.variant] = T[q.v.variant] /\ r.v.payload = q.v.payload
    /\ r.tag = "Err" => r = q

\* C13: a kind with COUNT = 0 between two nonzero kinds has the OFFSET where
\* its predecessor ends, which is its successor's OFFSET; try_as for it is
\* None on every id; and try_from decodes every id as the layout without
\* the empty kind does.
C13_EmptyKind ==
    \A i \in 1..Len(TT) : EmptyBetween(i) =>
        /\ OFFSET(S0, TT[i]) = OFFSET(S0, TT[i - 1]) + COUNT[TT[i - 1]]
        /\ OFFSET(S0, TT[i]) = OFFSET(S0, TT[i + 1])
        /\ Did("try_as") /\ arg.kind = TT[i] => res = None
        /\ Did("try_from") =>
               /\ res.tag = "Ok" => S0[res.v.variant] # TT[i]
               /\ SameDecode(S0, res, Without(S0, TT[i]),
                             Space_try_from(Without(S0, TT[i]), arg.v))

C13_Witness ==
    /\ Len(TT) = 3
    /\ EmptyBetween(2)
    /\ Did("try_from")
    /\ arg.v = OFFSET(S0, TT[2])
    /\ res.tag = "Ok"
    /\ S0[res.v.variant] = TT[3]

C15_RangeConversion ==
    /\ Did("token_try_from") /\ arg.kind \in RangeKinds =>
           /\ res.tag = "Ok" <=> arg.v < COUNT[arg.kind]
           /\ res.tag = "Ok" => res.v = RangeToken(arg.kind, arg.v)
           /\ res.tag # "Ok" => res = OutOfRange(arg.v, COUNT[arg.kind])
    /\ DidOn("token_value", "token_try_from") /\ arg.tag = "range" =>
           res = U(from.arg.v)

C15_Witness ==
    /\ Did("token_try_from")
    /\ arg.kind \in RangeKinds
    /\ COUNT[arg.kind] >= 1
    /\ arg.v = COUNT[arg.kind]
    /\ res.tag = "Err"

----------------------------------------------------------------------------
\* Streams.

\* The ids of a stream that fall into the region of kind k, in order.
KeptBy(k, ids) == SelectSeq(ids, LAMBDA id : InRange(k, id))

\* No element of the stream leaves the word when shifted by RESERVED.
NoOverflow(ids) == \A i \in 1..Len(ids) : ids[i] + R0 <= U32_MAX

\* C16: decoding a stream of raw ids yields exactly one result per element,
\* in input order; an element that fails to decode is an Err at its own
\* position and the elements after it are still decoded.
C16_StreamDecode ==
    Did("decode") =>
        /\ res.tag = "stream"
        /\ Len(res.items) = Len(arg.ids)
        /\ \A i \in 1..Len(arg.ids) :
            LET id == arg.ids[i]
                r == res.items[i]
            IN  /\ r.tag = "Ok" <=> (dynamic_field(S0) \/ id < R0)
                /\ r.tag = "Ok" => Space_value(S0, r.v) = {U(id)}
                /\ r.tag # "Ok" => r = OutOfRange(id, R0)

C16_Witness ==
    /\ Did("decode")
    /\ Len(arg.ids) = 2
    /\ res.items[1].tag = "Err"
    /\ res.items[2].tag = "Ok"

C18_StreamFilterByKind ==
    (Did("specials") \/ Did("filter_try_as")) =>
        LET kept == KeptBy(arg.kind, arg.ids)
        IN  /\ res.tag = "stream"
            /\ Len(res.items) = Len(kept)
            /\ \A i \in 1..Len(kept) :
                /\ res.items[i].kind = arg.kind
                /\ Token_value(res.items[i]) = kept[i] - OFFSET(S0, arg.kind)

C18_Witness ==
    /\ Did("specials")
    /\ OFFSET(S0, arg.kind) > 0
    /\ Len(arg.ids) = 2
    /\ arg.ids[1] >= R0
    /\ InRange(arg.kind, arg.ids[2])
    /\ Len(res.items) = 1

\* C19 as written, for every stream: after_reserved emits id + RESERVED for
\* every element, and remainders of the shifted stream is the original.
C19_ShiftThenRemaindersAll ==
    /\ Did("stream_after_reserved") =>
           /\ res.tag = "stream"
           /\ Len(res.items) = Len(arg.ids)
           /\ \A i \in 1..Len(arg.ids) : res.items[i] = arg.ids[i] + R0
    /\ DidOn("remainders", "stream_after_reserved") =>
           res = Stream(from.arg.ids)

\* C19: for a stream whose elements all satisfy id + RESERVED <= u32::MAX,
\* after_reserved emits id + RESERVED for every element, one per input in
\* order, and remainders of the shifted stream equals the original stream.
C19_ShiftThenRemainders ==
    /\ Did("stream_after_reserved") /\ NoOverflow(arg.ids) =>
           /\ res.tag = "stream"
           /\ Len(res.items) = Len(arg.ids)
           /\ \A i \in 1..Len(arg.ids) : res.items[i] = arg.ids[i] + R0
    /\ DidOn("remainders", "stream_after_reserved") /\ NoOverflow(from.arg.ids) =>
           res = Stream(from.arg.ids)

C19_Witness ==
    /\ DidOn("remainders", "stream_after_reserved")
    /\ R0 > 0
    /\ Len(from.arg.ids) = 2
    /\ NoOverflow(from.arg.ids)
    /\ from.arg.ids[1] > from.arg.ids[2]
    /\ res = Stream(from.arg.ids)

\* C20: ranges and tails return ids, and filtering their own result again
\* by the same kind yields that result unchanged: f(f(s)) = f(s).
C20_IdempotentFilter ==
    /\ DidOn("ranges", "ranges") =>
           /\ res = Stream(arg.ids)
           /\ res.items = KeptBy(arg.kind, from.arg.ids)
    /\ DidOn("tails", "tails") => res = Stream(arg.ids)

C20_Witness ==
    /\ DidOn("ranges", "ranges")
    /\ OFFSET(S0, arg.kind) > 0
    /\ Len(from.arg.ids) = 2
    /\ Len(res.items) = 1

----------------------------------------------------------------------------
\* Reuse of token kinds across spaces.

\* The token types placed before kind k in the space T.
Before(T, k) == {token_types(T)[j] : j \in 1..(type_index(T, k) - 1)}

\* The total COUNT of a set of kinds.
RECURSIVE SumCounts(_)
SumCounts(ks) ==
    IF ks = {} THEN 0
    ELSE LET k == CHOOSE x \in ks : TRUE IN COUNT[k] + SumCounts(ks \ {k})

\* T holds the token types of the declared space in another order.
Reordering(T) == KindsIn(T) = KindsIn(S0) /\ token_types(T) # TT

\* The first position at which the reordering T departs from the declared order.
FirstMoved(T) ==
    CHOOSE i \in 1..Len(TT) :
        /\ token_types(T)[i] # TT[i]
        /\ \A j \in 1..(i - 1) : token_types(T)[j] = TT[j]

\* C21 as written: a reordering changes the offset of every kind placed
\* after the first moved position, and an id of kind K in one layout is
\* never attributed to K in a layout that gives K another offset.
C21_ReorderingShiftsAll ==
    /\ Fresh =>
           \A T \in SpacesReusing(S0) :
               Reordering(T) =>
                   \A i \in 1..Len(TT) :
                       i > FirstMoved(T) =>
                           OFFSET(T, token_types(T)[i]) # OFFSET(S0, token_types(T)[i])
    /\ (/\ Did("try_as_in")
        /\ try_as(S0, arg.kind, arg.v).tag = "Some"
        /\ OFFSET(arg.space, arg.kind) # OFFSET(S0, arg.kind))
           => res = None

\* C21: a kind's offset in a layout is the total COUNT of the kinds placed
\* before it in that layout, so a reordering changes its offset exactly when
\* that total changes; an id that is a value of K in one layout is the same
\* value of K in another layout exactly when K's two offsets coincide.
C21_LayoutRelative ==
    /\ Fresh =>
           \A T \in SpacesReusing(S0) :
               \A k \in KindsIn(T) :
                   /\ OFFSET(T, k) = SumCounts(Before(T, k))
                   /\ (OFFSET(T, k) # OFFSET(S0, k))
                          <=> (SumCounts(Before(T, k)) # SumCounts(Before(S0, k)))
    /\ Did("try_as_in") =>
           LET here == try_as(S0, arg.kind, arg.v)
           IN  here.tag = "Some" =>
                   (res = here <=> OFFSET(arg.space, arg.kind) = OFFSET(S0, arg.kind))
    /\ Did("position_of_in") /\ ValidToken(arg.v) =>
           res = U(Token_value(arg.v) + SumCounts(Before(arg.space, arg.kind)))

C21_Witness ==
    /\ Did("try_as_in")
    /\ Reordering(arg.space)
    /\ OFFSET(arg.space, arg.kind) # OFFSET(S0, arg.kind)
    /\ try_as(S0, arg.kind, arg.v).tag = "Some"
    /\ res.tag = "Some"
    /\ res # try_as(S0, arg.kind, arg.v)

----------------------------------------------------------------------------
\* The reserved range and the remainder.

\* C22: is_reserved(id) holds exactly when id < RESERVED, remainder(id) is
\* Some(id - RESERVED) exactly when id >= RESERVED and None otherwise, so for
\* every id exactly one of is_reserved(id) and remainder(id).is_some() holds.
C22_ReservedPartition ==
    /\ Did("is_reserved") =>
           /\ res = Bool(arg.v < R0)
           /\ res.b <=> remainder(S0, arg.v) = None
    /\ Did("remainder") =>
           /\ arg.v >= R0 <=> res.tag = "Some"
           /\ arg.v < R0 <=> res = None
           /\ res.tag = "Some" => res.v = arg.v - R0
           /\ res.tag = "Some" <=> ~is_reserved(S0, arg.v)

C22_Witness ==
    /\ Did("is_reserved")
    /\ R0 > 0
    /\ arg.v = R0
    /\ res = Bool(FALSE)
    /\ remainder(S0, arg.v) = Some(0)

\* C23: with or without a dynamic variant, remainder(id) is Some(id - RESERVED)
\* for every id from RESERVED up to u32::MAX, with no upper bound from a
\* vocabulary size, although try_from of the same id fails for a space
\* without a dynamic variant.
C23_RemainderUnbounded ==
    /\ Did("remainder") /\ arg.v >= R0 => res = Some(arg.v - R0)
    /\ Did("try_from") /\ arg.v >= R0 /\ ~dynamic_field(S0) =>
           /\ res.tag = "Err"
           /\ remainder(S0, arg.v) = Some(arg.v - R0)

C23_Witness ==
    /\ Did("remainder")
    /\ ~dynamic_field(S0)
    /\ R0 > 0
    /\ arg.v = U32_MAX
    /\ res = Some(U32_MAX - R0)
    /\ Space_try_from(S0, arg.v).tag = "Err"

----------------------------------------------------------------------------
\* The static part of a space with and without a dynamic variant.

GingerKinds == {"GingerToken", "MaoToken", "SingleToken", "TextTokens"}

\* C24: GingerSpace (decoded by a match on literal ranges) and
\* DynamicGingerSpace (decoded by try_as per type, then the remainder) have
\* the same OFFSET per kind and the same RESERVED, give the same position_of
\* for every static value, and decode every id < RESERVED to the same kind
\* and local value.
C24_SameStaticPart ==
    /\ \A k \in GingerKinds : GingerSpace_OFFSET(k) = DynamicGingerSpace_OFFSET(k)
    /\ GingerSpace_RESERVED = DynamicGingerSpace_RESERVED
    /\ Did("GingerSpace::position_of") =>
           res = U(DynamicGingerSpace_position_of(arg))
    /\ Did("DynamicGingerSpace::position_of") =>
           res = U(GingerSpace_position_of(arg))
    /\ Did("GingerSpace::try_from") /\ arg.v < GingerSpace_RESERVED =>
           /\ res.tag = "Ok"
           /\ res = DynamicGingerSpace_try_from(arg.v)
           /\ Token_value(res.v.payload) =
                  arg.v - DynamicGingerSpace_OFFSET(res.v.payload.kind)
    /\ Did("DynamicGingerSpace::try_from") /\ arg.v < DynamicGingerSpace_RESERVED =>
           /\ res.tag = "Ok"
           /\ res = GingerSpace_try_from(arg.v)
           /\ DynamicGingerSpace_variants[res.v.variant] = res.v.payload.kind

C24_Witness ==
    /\ Did("GingerSpace::try_from")
    /\ arg.v = 8
    /\ res = Ok(SpaceValue(2, NameToken("MaoToken", 4)))
    /\ DynamicGingerSpace_try_from(arg.v) = res

----------------------------------------------------------------------------
\* Encoding a range value.

\* C25: for a range kind K of the space, inside(local) is Some(OFFSET(K) +
\* local) when local < COUNT(K) and None when local >= COUNT(K), so a local
\* value out of range is never mapped into the sub-range of another kind.
C25_InsideChecked ==
    Did("inside") =>
        /\ arg.v < COUNT[arg.kind] =>
               /\ res = Some(SumCounts(Before(S0, arg.kind)) + arg.v)
               /\ InRange(arg.kind, res.v)
        /\ arg.v >= COUNT[arg.kind] => res = None
        /\ res.tag = "Some" =>
               \A j \in KindsIn(S0) \ {arg.kind} : ~InRange(j, res.v)

C25_Witness ==
    /\ Did("inside")
    /\ arg.v = COUNT[arg.kind]
    /\ res = None
    /\ \E j \in KindsIn(S0) \ {arg.kind} : InRange(j, OFFSET(S0, arg.kind) + arg.v)

----------------------------------------------------------------------------
\* The order of the decode arms.

\* The kinds whose try_as accepts the id.
Matching(id) == {k \in KindsIn(S0) : try_as(S0, k, id).tag = "Some"}

\* C26: at most one static kind matches any id, so testing the kinds in any
\* permutation of the layout order, with the dynamic case tested last,
\* returns the same tagged result for every id as testing in layout order.
C26_OrderIndependent ==
    Did("try_from_in_order") =>
        /\ Cardinality(Matching(arg.v)) <= 1
        /\ res = Space_try_from(S0, arg.v)
        /\ \A k \in Matching(arg.v) :
               res = Ok(SpaceValue(VariantOf(k), try_as(S0, k, arg.v).v))
        /\ Matching(arg.v) = {} =>
               res = IF dynamic_field(S0)
                     THEN Ok(SpaceValue(dynamic_variant(S0), U(arg.v - R0)))
                     ELSE OutOfRange(arg.v, R0)

C26_Witness ==
    /\ Did("try_from_in_order")
    /\ Len(arg.arms) = 3
    /\ arg.arms[1].variant = 3
    /\ arg.arms[3].variant = 1
    /\ \A i \in 1..3 : COUNT[arg.arms[i].token_type] > 0
    /\ res.tag = "Ok"
    /\ res.v.variant = 1

----------------------------------------------------------------------------
\* The derive on a declaration.

\* C27: a declaration that marks two or more variants #[dynamic] is
\* rejected and no codec is produced; a declaration with zero or one marker
\* is accepted and yields a codec.
C27_AtMostOneDynamic ==
    /\ Did("derive_space") =>
           (dynamic_markers(S0) >= 2 <=> res.tag = "compile_error")
    /\ op = "compile" =>
           (dynamic_markers(S0) <= 1 <=> res.tag = "codec")

\* C30: in the expansion every variant not marked #[dynamic] has a decode
\* arm and a value arm of its own, on the token type of its own field,
\* wherever the #[dynamic] variant stands.
C30_PairedWithOwnType ==
    Did("derive_space") /\ res.tag = "expanded" =>
        \A i \in 1..Len(S0) :
            S0[i] # Dynamic =>
                /\ \E n \in 1..Len(res.decode_arms) :
                       /\ res.decode_arms[n].variant = i
                       /\ res.decode_arms[n].token_type = S0[i]
                /\ \A n \in 1..Len(res.decode_arms) :
                       res.decode_arms[n].variant = i
                           => res.decode_arms[n].token_type = S0[i]
                /\ \E n \in 1..Len(res.value_arms) :
                       /\ res.value_arms[n].variant = i
                       /\ ~res.value_arms[n].dynamic

----------------------------------------------------------------------------
\* The bounded tail.

\* The id lies in the dynamic part of a space with the given vocabulary.
InTail(id, vocab_size) == R0 <= id /\ id < R0 + vocab_size

\* C28 as written, for every vocabulary size: tail(id) is Some(id - RESERVED)
\* exactly for RESERVED <= id < RESERVED + vocab_size and None otherwise,
\* and tails keeps exactly those ids, unchanged and in order.
C28_BoundedTailAll ==
    /\ Did("tail") =>
           res = IF InTail(arg.v, arg.vocab_size) THEN Some(arg.v - R0) ELSE None
    /\ Did("tails") =>
           res = Stream(SelectSeq(arg.ids, LAMBDA id : InTail(id, arg.vocab_size)))

\* C28: for a space whose count() = RESERVED + vocab_size fits in u32,
\* tail(id) is Some(id - RESERVED) exactly for RESERVED <= id < count() and
\* None both below RESERVED and from count() on, and tails keeps exactly the
\* ids for which tail is Some, unchanged and in order.
C28_BoundedTail ==
    /\ Did("tail") /\ R0 + arg.vocab_size <= U32_MAX =>
           res = IF InTail(arg.v, arg.vocab_size) THEN Some(arg.v - R0) ELSE None
    /\ Did("tails") /\ R0 + arg.vocab_size <= U32_MAX =>
           res = Stream(SelectSeq(arg.ids, LAMBDA id : InTail(id, arg.vocab_size)))

C28_Witness ==
    /\ Did("tails")
    /\ R0 > 0
    /\ arg.vocab_size > 1
    /\ R0 + arg.vocab_size <= U32_MAX
    /\ arg.ids = <<R0 + arg.vocab_size, R0 + arg.vocab_size - 1>>
    /\ res = Stream(<<R0 + arg.vocab_size - 1>>)

----------------------------------------------------------------------------
\* Range values built directly.

\* A range value whose local value is not below the COUNT of its kind.
OutOfKind(t) == t.tag = "range" /\ t.n >= COUNT[t.kind]

\* C29 as written, for every range value: position_of checks nothing and
\* returns OFFSET(K) + local, outside K's sub-range when local >= COUNT(K),
\* and decoding that id never gives back the original value; for
\* local < COUNT(K) the position lies in K's sub-range, is reserved and
\* decodes to the value.
C29_UncheckedPositionAll ==
    /\ Did("position_of") /\ OutOfKind(arg) =>
           /\ res = U(OFFSET(S0, arg.kind) + arg.n)
           /\ ~InRange(arg.kind, res.v)
    /\ DidOn("try_from", "position_of") /\ OutOfKind(from.arg) =>
           \/ res.tag = "Err"
           \/ res.v.variant # VariantOf(from.arg.kind)
    /\ Did("position_of") /\ ValidToken(arg) =>
           /\ res.tag = "u32"
           /\ InRange(arg.kind, res.v)
           /\ is_reserved(S0, res.v)
    /\ DidOn("try_from", "position_of") /\ ValidToken(from.arg) =>
           res = Ok(SpaceValue(VariantOf(from.arg.kind), from.arg))

\* C29: the same, with position_of returning OFFSET(K) + local for the range
\* values whose OFFSET(K) + local fits in u32.
C29_UncheckedPosition ==
    /\ (/\ Did("position_of")
        /\ OutOfKind(arg)
        /\ OFFSET(S0, arg.kind) + arg.n <= U32_MAX) =>
           /\ res = U(OFFSET(S0, arg.kind) + arg.n)
           /\ ~InRange(arg.kind, res.v)
    /\ DidOn("try_from", "position_of") /\ OutOfKind(from.arg) =>
           \/ res.tag = "Err"
           \/ res.v.variant # VariantOf(from.arg.kind)
    /\ Did("position_of") /\ ValidToken(arg) =>
           /\ res.tag = "u32"
           /\ InRange(arg.kind, res.v)
           /\ is_reserved(S0, res.v)
    /\ DidOn("try_from", "position_of") /\ ValidToken(from.arg) =>
           res = Ok(SpaceValue(VariantOf(from.arg.kind), from.arg))

C29_Witness ==
    /\ DidOn("try_from", "position_of")
    /\ OutOfKind(from.arg)
    /\ from.arg.n = COUNT[from.arg.kind]
    /\ OFFSET(S0, from.arg.kind) > 0
    /\ arg = U(OFFSET(S0, from.arg.kind) + from.arg.n)
    /\ res.tag = "Ok"
    /\ S0[res.v.variant] \in KindsIn(S0) \ {from.arg.kind}

====
